---- MODULE Spec2Model ----
(***************************************************************************)
(* Model of the batch transcoding pipeline of opus2mp3.py: the             *)
(* ConversionThread coordinator (run, _setup_parallel_conversion,          *)
(* _monitor_conversion_progress, _cancel_pending_conversions, stop), the   *)
(* per-file task convert_file running on a ThreadPoolExecutor, and the     *)
(* progress accounting of _handle_conversion_result.                       *)
(***************************************************************************)
EXTENDS Integers, Sequences, FiniteSets, TLC

(***************************************************************************)
(* Bounds of the model.                                                    *)
(***************************************************************************)
\* largest number of files in a batch explored with all interleavings
MaxJobs == 2
\* os.cpu_count(): the size of the worker pool
NumWorkers == 2
\* largest batch size for which the progress arithmetic is explored
MaxTotal == 50

(***************************************************************************)
(* Python float arithmetic.  A double is a pair (bits, exp): bits is the   *)
(* significand as a sequence of binary digits, most significant first,     *)
(* and the value is int(bits) * 2^exp.  All operators work on small        *)
(* integers only, so no intermediate value exceeds the integer range.      *)
(***************************************************************************)
\* number of significand bits of an IEEE-754 binary64
MantissaBits == 53

RECURSIVE Pow2(_)
Pow2(k) == IF k = 0 THEN 1 ELSE 2 * Pow2(k - 1)

RECURSIVE PowMod(_, _)
\* 2^e modulo n, by repeated squaring
PowMod(e, n) ==
    IF e = 0 THEN 1 % n
    ELSE LET h == PowMod(e \div 2, n)
         IN  (((h * h) % n) * (IF e % 2 = 1 THEN 2 ELSE 1)) % n

RECURSIVE BitsOf(_)
\* binary digits of a small natural number, most significant first
BitsOf(v) == IF v = 0 THEN << >> ELSE Append(BitsOf(v \div 2), v % 2)

\* the k low binary digits of a small natural number
FixedBits(v, k) == [i \in 1..k |-> (v \div Pow2(k - i)) % 2]

RECURSIVE IntOf(_)
\* the natural number written by a short digit sequence
IntOf(bits) ==
    IF bits = << >> THEN 0
    ELSE 2 * IntOf(SubSeq(bits, 1, Len(bits) - 1)) + bits[Len(bits)]

\* the digit sequence without its leading zeros
StripZeros(bits) ==
    IF \A i \in 1..Len(bits) : bits[i] = 0 THEN << >>
    ELSE LET f == CHOOSE i \in 1..Len(bits) :
                      bits[i] = 1 /\ \A j \in 1..(i - 1) : bits[j] = 0
         IN  SubSeq(bits, f, Len(bits))

\* bits + 1
IncBits(bits) ==
    IF \A i \in 1..Len(bits) : bits[i] = 1
    THEN <<1>> \o [i \in 1..Len(bits) |-> 0]
    ELSE LET z == CHOOSE i \in 1..Len(bits) :
                      bits[i] = 0 /\ \A j \in (i + 1)..Len(bits) : bits[j] = 1
         IN  [i \in 1..Len(bits) |->
                 IF i < z THEN bits[i] ELSE IF i = z THEN 1 ELSE 0]

RECURSIVE NormShift(_, _, _)
\* least s >= s0 with c * 2^s >= n
NormShift(c, n, s) == IF c >= n THEN s ELSE NormShift(2 * c, n, s + 1)

\* round-half-to-even decision from the last kept digit and what was dropped
RoundUp(last, guard, sticky) == guard = 1 /\ (sticky \/ last = 1)

\* c / n for integers 0 <= c <= n: the correctly rounded binary64 quotient.
\* With a == c * 2^s in [n, 2n), digit i of the quotient is decided by the
\* remainder of a * 2^(i-2) modulo n, as in long division.
FloatDiv(c, n) ==
    IF c = 0 THEN [bits |-> << >>, exp |-> 0] ELSE
    LET s      == NormShift(c, n, 0)
        a      == c * Pow2(s)
        rem(i) == ((a % n) * PowMod(i, n)) % n
        digits == [i \in 1..MantissaBits |->
                      IF i = 1 THEN 1
                      ELSE IF 2 * rem(i - 2) >= n THEN 1 ELSE 0]
        last   == rem(MantissaBits - 1)
        guard  == IF 2 * last >= n THEN 1 ELSE 0
        sticky == (2 * last - guard * n) # 0
    IN  [bits |-> IF RoundUp(digits[MantissaBits], guard, sticky)
                  THEN IncBits(digits) ELSE digits,
         exp  |-> 0 - (s + MantissaBits - 1)]

RECURSIVE MulChunks(_, _, _)
\* exact product of a digit sequence by a small integer m, eight digits
\* at a time from the least significant end
MulChunks(bits, m, carry) ==
    IF bits = << >> THEN BitsOf(carry)
    ELSE LET k  == IF Len(bits) < 8 THEN Len(bits) ELSE 8
             lo == SubSeq(bits, Len(bits) - k + 1, Len(bits))
             hi == SubSeq(bits, 1, Len(bits) - k)
             v  == IntOf(lo) * m + carry
         IN  MulChunks(hi, m, v \div Pow2(k)) \o FixedBits(v % Pow2(k), k)

\* round an exact value to MantissaBits significant digits, ties to even
RoundFloat(x) ==
    LET b == StripZeros(x.bits)
        d == Len(b) - MantissaBits
    IN  IF d <= 0 THEN [bits |-> b, exp |-> x.exp]
        ELSE LET kept   == SubSeq(b, 1, MantissaBits)
                 guard  == b[MantissaBits + 1]
                 sticky == \E i \in (MantissaBits + 2)..Len(b) : b[i] = 1
             IN  [bits |-> IF RoundUp(kept[MantissaBits], guard, sticky)
                           THEN IncBits(kept) ELSE kept,
                  exp  |-> x.exp + d]

\* x * m for a double x and a small integer m
FloatMul(x, m) == RoundFloat([bits |-> MulChunks(x.bits, m, 0), exp |-> x.exp])

\* int(x): truncation toward zero of a non-negative double
FloatToInt(x) ==
    IF x.exp >= 0 THEN IntOf(x.bits) * Pow2(x.exp)
    ELSE IF Len(x.bits) + x.exp <= 0 THEN 0
    ELSE IntOf(SubSeq(x.bits, 1, Len(x.bits) + x.exp))

\* int((completed_files / len(files_to_convert)) * 100)
Progress(c, n) == FloatToInt(FloatMul(FloatDiv(c, n), 100))

\* Progress for every batch size and counter value of the model
ProgressTable == [n \in 1..MaxTotal |-> [c \in 1..n |-> Progress(c, n)]]

(***************************************************************************)
(* State.                                                                  *)
(***************************************************************************)
VARIABLES
    num_files,        \* len(self.files_to_convert)
    running,          \* self.running, the cancellation flag
    completed_files,  \* self.completed_files
    lock,             \* self.lock: 0 when free, else the task holding it
    pc_run,           \* position of the coordinator in run()
    submitted,        \* number of futures created by the submit loop
    yielded,          \* number of futures as_completed has yielded
    future,           \* per file: state of its future in the executor
    pc,               \* per file: position of its task in convert_file
    loudnorm_stats,   \* per file: result of _execute_first_pass
    loaded,           \* per file: value read by `completed_files += 1`
    progress,         \* per file: the local `progress` of the critical section
    history,          \* per file: log events emitted and tool steps, in order
    progress_log,     \* progress values emitted, in emission order
    stop_called,      \* stop() has been called on this thread
    stderr,           \* _parse_loudnorm_stats: its argument
    parsed,           \* _parse_loudnorm_stats: what it returned or raised
    tag_value,        \* _handle_date_tag: its argument
    tdrc,             \* _handle_date_tag: the text of mp3_audio.tags["TDRC"]
    warnings,         \* _handle_date_tag: the values it warned about
    dest_dir,         \* the directory dest_line_edit names, on the disk
    output_log,       \* what the window has appended to output_log
    src_file,         \* the source file of a transplant, as OggOpus reads it
    dest_file,        \* the destination file of a transplant, on the disk
    picture,          \* convert_file: what _find_front_cover returned
    mp3_tags,         \* _copy_cover_art: the APIC frames of its mp3_audio.tags
    listing,          \* the names os.listdir finds in the source directory
    file_table,       \* the rows of file_table: a name and its check state
    files_to_convert, \* what _get_selected_files returned to start_conversion
    is_converting,    \* the last argument of set_conversion_ui_state
    later_threads,    \* ConversionThreads started after the first one
    finished_signal   \* the first thread's `finished` and conversion_finished

\* the variables of the pure functions and of the window, which no step of
\* a batch touches
\* the variables of the metadata transplant
tagVars == <<src_file, dest_file, picture, mp3_tags>>

\* the variables of the window's file table and of its buttons
windowVars == <<listing, file_table, files_to_convert, is_converting,
                later_threads, finished_signal>>

restVars == <<stderr, parsed, tag_value, tdrc, warnings, dest_dir, output_log,
              tagVars, windowVars>>

vars == <<num_files, running, completed_files, lock, pc_run, submitted,
          yielded, future, pc, loudnorm_stats, loaded, progress, history,
          progress_log, stop_called, restVars>>

coordVars == <<pc_run, submitted, yielded>>

\* the files of the batch, by position in files_to_convert
Files == 1..num_files

\* what _parse_loudnorm_stats can produce from the analysis output:
\* a dict with every field of the second pass, a dict lacking one, an error
StatsOutcomes == {"complete", "incomplete", "error"}

\* what the metadata transplant reports for a file
MetadataOutcomes == {"Info", "Warning"}

\* log severities a task emits (LogType); "ToolNotFound" stands for the Error
\* event that carries "ffmpeg not found"
LogEvents == {"Overwriting", "Converting", "Finished", "Error",
              "ToolNotFound", "Warning", "Info"}

Emit(t, items) == history' = [history EXCEPT ![t] = @ \o items]

Has(t, item) == \E i \in 1..Len(history[t]) : history[t][i] = item

\* what `parsed` holds before _parse_loudnorm_stats has run
NoStats == [kind |-> "none", dict |-> << >>]

\* the None that _find_front_cover returns when it finds no picture
NoPicture == [kind |-> "None", mime |-> "", data |-> << >>]

\* a file that no transplant reads or writes
NoFile == [readable |-> FALSE]

\* no metadata transplant is under way
TagIdle ==
    /\ src_file = NoFile
    /\ dest_file = NoFile
    /\ picture = NoPicture
    /\ mp3_tags = << >>

\* the window as the batch specifications see it: its table and its buttons
\* play no part
WindowIdle ==
    /\ listing = {}
    /\ file_table = << >>
    /\ files_to_convert = << >>
    /\ is_converting = FALSE
    /\ later_threads = 0
    /\ finished_signal = "connected"

\* no function has been given an input, and the window has validated the
\* destination directory and cleared its log
RestIdle ==
    /\ stderr = << >>
    /\ parsed = NoStats
    /\ tag_value = << >>
    /\ tdrc = << >>
    /\ warnings = << >>
    /\ dest_dir = "exists"
    /\ output_log = << >>
    /\ TagIdle
    /\ WindowIdle

\* self.running is True, completed_files is 0, nothing submitted
Init ==
    /\ num_files \in 1..MaxJobs
    /\ running = TRUE
    /\ completed_files = 0
    /\ lock = 0
    /\ pc_run = "created"
    /\ submitted = 0
    /\ yielded = 0
    /\ future = [t \in Files |-> "none"]
    /\ pc = [t \in Files |-> "idle"]
    /\ loudnorm_stats = [t \in Files |-> "none"]
    /\ loaded = [t \in Files |-> 0]
    /\ progress = [t \in Files |-> 0]
    /\ history = [t \in Files |-> << >>]
    /\ progress_log = << >>
    /\ stop_called = FALSE
    /\ RestIdle

(***************************************************************************)
(* The coordinator: ConversionThread.run on the QThread.                   *)
(***************************************************************************)
\* QThread.start(): run() finds files_to_convert non-empty and enters
\* _setup_parallel_conversion, which creates the executor
Run ==
    /\ pc_run = "created"
    /\ pc_run' = "submit"
    /\ UNCHANGED <<num_files, running, completed_files, lock, submitted,
                   yielded, future, pc, loudnorm_stats, loaded,
                   progress, history, progress_log,
                   stop_called, restVars>>

\* executor.submit(self.convert_file, file) for the next file
SetupParallelConversion ==
    /\ pc_run = "submit"
    /\ submitted < num_files
    /\ submitted' = submitted + 1
    /\ future' = [future EXCEPT ![submitted + 1] = "pending"]
    /\ pc_run' = IF submitted + 1 = num_files THEN "monitor" ELSE "submit"
    /\ UNCHANGED <<num_files, running, completed_files, lock, yielded,
                   pc, loudnorm_stats, loaded, progress, history,
                   progress_log,
                   stop_called, restVars>>

\* futures that as_completed can yield
Completed == {t \in Files : future[t] \in {"finished", "cancelled"}}

\* a cancellation that also drops the work items that are running
CancelEveryConversion(f) ==
    [t \in DOMAIN f |->
        IF f[t] \in {"pending", "running"} THEN "cancelled" ELSE f[t]]

\* _cancel_pending_conversions: future.cancel() on every future cancels
\* those still pending and leaves the others as they are
CancelPendingConversions(f) ==
    [t \in DOMAIN f |-> IF f[t] = "pending" THEN "cancelled" ELSE f[t]]

\* one iteration of `for _ in as_completed(futures)`: a completed future is
\* yielded and self.running is read; when it is False the pending futures
\* are cancelled and the loop is left
MonitorConversionProgress ==
    /\ pc_run = "monitor"
    /\ yielded < Cardinality(Completed)
    /\ yielded' = yielded + 1
    /\ IF ~running
       THEN /\ future' = CancelPendingConversions(future)
            /\ pc_run' = "shutdown"
       ELSE /\ future' = future
            /\ pc_run' = IF yielded + 1 = num_files THEN "shutdown"
                         ELSE "monitor"
    /\ UNCHANGED <<num_files, running, completed_files, lock, submitted, pc,
                   loudnorm_stats, loaded, progress, history, progress_log,
                   stop_called, restVars>>

\* a shutdown that does not wait for the workers
ShutdownNoWait == TRUE

\* a shutdown that waits for every future to have run
ShutdownAllRan == \A t \in Files : future[t] = "finished"

\* executor.shutdown(wait=True) returns once no work item is queued or running
ShutdownComplete == \A t \in Files : future[t] \notin {"pending", "running"}

\* leaving the `with ThreadPoolExecutor` block: run() returns and QThread
\* fires `finished`
ExecutorShutdown ==
    /\ pc_run = "shutdown"
    /\ ShutdownComplete
    /\ pc_run' = "done"
    /\ UNCHANGED <<num_files, running, completed_files, lock, submitted,
                   yielded, future, pc, loudnorm_stats, loaded,
                   progress, history, progress_log,
                   stop_called, restVars>>

\* a stop() that assigns the wrong constant
StopAssignsTrue == TRUE

\* the value stop() assigns to self.running
StopAssigns == FALSE

\* ConversionThread.stop(), called by cancel_conversion while isRunning()
Stop ==
    /\ pc_run \notin {"none", "created", "done"}
    /\ ~stop_called
    /\ running' = StopAssigns
    /\ stop_called' = TRUE
    /\ UNCHANGED <<num_files, completed_files, lock, coordVars, future, pc,
                   loudnorm_stats, loaded, progress, history, progress_log,
                   restVars>>

(***************************************************************************)
(* The tasks: ConversionThread.convert_file on the executor's workers.     *)
(***************************************************************************)
Executing == {t \in Files : future[t] = "running"}

\* a worker that also runs the work items that were cancelled
RunsCancelled(state) == state \in {"pending", "cancelled"}

\* the work items a worker may take: future.cancel() on a pending future
\* makes the worker drop it at set_running_or_notify_cancel
Runnable(state) == state = "pending"

\* a worker takes the oldest queued work item that was not cancelled
StartTask(t) ==
    /\ Runnable(future[t])
    /\ Cardinality(Executing) < NumWorkers
    /\ \A u \in Files : u < t => future[u] # "pending"
    /\ future' = [future EXCEPT ![t] = "running"]
    /\ pc' = [pc EXCEPT ![t] = "check"]
    /\ UNCHANGED <<num_files, running, completed_files, lock, coordVars,
                   loudnorm_stats, loaded, progress, history, progress_log,
                   stop_called, restVars>>

\* the task returns from convert_file
Return(t) ==
    /\ pc' = [pc EXCEPT ![t] = "returned"]
    /\ future' = [future EXCEPT ![t] = "finished"]

\* a start check that ignores the flag
AlwaysStartWork(flag) == TRUE

\* `if not self.running: return` lets the task work only while the flag is set
MayStartWork(flag) == flag

\* a handler that announces every file as a new conversion
AlwaysConverting(exists) == "Converting"

\* the event _handle_existing_file emits for the result of os.path.exists
ExistingFileEvent(exists) == IF exists THEN "Overwriting" ELSE "Converting"

\* _handle_existing_file: os.path.exists(dest_path) is read, which the
\* history records as DestExists or DestAbsent, and decides the event
HandleExistingFile(t) ==
    \E exists \in BOOLEAN :
        Emit(t, <<IF exists THEN "DestExists" ELSE "DestAbsent",
                  ExistingFileEvent(exists)>>)

\* the start of convert_file: the flag check and, past it, the event about
\* the destination file
ConvertFileCheck(t) ==
    /\ pc[t] = "check"
    /\ IF MayStartWork(running)
       THEN /\ HandleExistingFile(t)
            /\ pc' = [pc EXCEPT ![t] = "first_pass"]
            /\ future' = future
       ELSE /\ Return(t)
            /\ history' = history
    /\ UNCHANGED <<num_files, running, completed_files, lock, coordVars,
                   loudnorm_stats, loaded, progress, progress_log,
                   stop_called, restVars>>

\* _execute_first_pass up to subprocess.Popen: the tool is found and runs, or
\* FileNotFoundError reaches convert_file, which emits the Error event
ExecuteFirstPass(t) ==
    /\ pc[t] = "first_pass"
    /\ \E found \in BOOLEAN :
          IF found
          THEN /\ Emit(t, <<"AnalysisStart">>)
               /\ pc' = [pc EXCEPT ![t] = "first_wait"]
          ELSE /\ Emit(t, <<"AnalysisStart", "ToolNotFound">>)
               /\ pc' = [pc EXCEPT ![t] = "halt"]
    /\ UNCHANGED <<num_files, running, completed_files, lock, coordVars,
                   future, loudnorm_stats, loaded, progress, progress_log,
                   stop_called, restVars>>

\* an `except Exception` handler that also clears the flag
HaltingHandler(flag) == FALSE

\* `except Exception` in convert_file emits the Error event and leaves
\* self.running as it is
ExceptionHandler(flag) == flag

\* a first pass that does not look at the exit code
ExitCodeIgnored(rc) == FALSE

\* `if process.returncode != 0: raise RuntimeError`
AnalysisFailed(rc) == rc # 0

\* what the history records for the exit of the analysis pass
AnalysisExit(rc) == IF rc = 0 THEN "AnalysisExit0" ELSE "AnalysisExit1"

\* process.communicate() of the first pass returns: a non-zero exit code or
\* a failure of _parse_loudnorm_stats raises RuntimeError, which convert_file
\* reports as an Error event
FirstPassExit(t) ==
    /\ pc[t] = "first_wait"
    /\ \E rc \in {0, 1}, stats \in StatsOutcomes :
          IF AnalysisFailed(rc)
          THEN /\ Emit(t, <<AnalysisExit(rc), "Error">>)
               /\ Return(t)
               /\ running' = ExceptionHandler(running)
               /\ loudnorm_stats' = loudnorm_stats
          ELSE IF stats = "error"
          THEN /\ Emit(t, <<AnalysisExit(rc), "StatsFailed", "Error">>)
               /\ Return(t)
               /\ running' = ExceptionHandler(running)
               /\ loudnorm_stats' = loudnorm_stats
          ELSE /\ Emit(t, <<AnalysisExit(rc), "StatsParsed">>)
               /\ pc' = [pc EXCEPT ![t] = "second_pass"]
               /\ future' = future
               /\ running' = running
               /\ loudnorm_stats' = [loudnorm_stats EXCEPT ![t] = stats]
    /\ UNCHANGED <<num_files, completed_files, lock, coordVars,
                   loaded, progress, progress_log,
                   stop_called, restVars>>

\* _get_ffmpeg_second_pass_command (KeyError on a missing field) and
\* _execute_second_pass up to subprocess.Popen
ExecuteSecondPass(t) ==
    /\ pc[t] = "second_pass"
    /\ IF loudnorm_stats[t] = "incomplete"
       THEN /\ Emit(t, <<"Error">>)
            /\ Return(t)
            /\ running' = ExceptionHandler(running)
       ELSE /\ running' = running
            /\ \E found \in BOOLEAN :
                  IF found
                  THEN /\ Emit(t, <<"EncodeStart">>)
                       /\ pc' = [pc EXCEPT ![t] = "second_wait"]
                       /\ future' = future
                  ELSE /\ Emit(t, <<"EncodeStart", "ToolNotFound">>)
                       /\ pc' = [pc EXCEPT ![t] = "halt"]
                       /\ future' = future
    /\ UNCHANGED <<num_files, completed_files, lock, coordVars,
                   loudnorm_stats, loaded, progress, progress_log,
                   stop_called, restVars>>

\* the argument list _get_ffmpeg_second_pass_command returns; the filter
\* argument carries the measured values of the first pass
SecondPassCommand ==
    <<"ffmpeg", "-y", "-i", "src_path", "-af", "loudnorm_params",
      "-q:a", "0", "-ar", "48000", "dest_path">>

\* ffmpeg replaces an existing output file only when it is given -y
Overwrites(command) == \E i \in 1..Len(command) : command[i] = "-y"

\* the exit codes the encode pass can end with: without -y ffmpeg refuses
\* an output file that exists
EncodeExitCodes(exists, command) ==
    IF exists /\ ~Overwrites(command) THEN {1} ELSE {0, 1}

\* a result handler that counts the file whatever the return code
AlwaysCount(rc) == "lock"

\* where convert_file goes after _handle_conversion_result has logged the
\* return code: into the critical section on 0, to its end otherwise
AfterResult(rc) == IF rc = 0 THEN "lock" ELSE "returned"

\* a result handler that logs Finished and then the error of the tool
FinishedThenError(rc) == <<"Finished", "Error">>

\* the log events of _handle_conversion_result: Finished on return code 0,
\* else the Error event about the return code and the one with the output
ConversionResultLog(rc) ==
    IF rc = 0 THEN <<"Finished">> ELSE <<"Error", "Error">>

\* process.communicate() of the second pass returns and
\* _handle_conversion_result logs Finished, or Error twice
SecondPassExit(t) ==
    /\ pc[t] = "second_wait"
    /\ \E rc \in EncodeExitCodes(Has(t, "DestExists"), SecondPassCommand) :
          /\ Emit(t, (IF rc = 0 THEN <<"EncodeExit0">>
                      ELSE IF Has(t, "DestExists")
                              /\ ~Overwrites(SecondPassCommand)
                      THEN <<"EncodeRefused", "EncodeExit1">>
                      ELSE <<"EncodeExit1">>) \o ConversionResultLog(rc))
          /\ pc' = [pc EXCEPT ![t] = AfterResult(rc)]
          /\ future' = [future EXCEPT ![t] =
                           IF AfterResult(rc) = "returned" THEN "finished"
                           ELSE @]
    /\ UNCHANGED <<num_files, running, completed_files, lock, coordVars,
                   loudnorm_stats, loaded, progress, progress_log,
                   stop_called, restVars>>

\* a lock that never blocks
NeverBlocks(holder) == TRUE

\* threading.Lock: acquire blocks while another task holds the lock
LockAvailable(holder) == holder = 0

\* `with self.lock:` entered, and the read of `self.completed_files += 1`
AcquireLock(t) ==
    /\ pc[t] = "lock"
    /\ LockAvailable(lock)
    /\ lock' = t
    /\ loaded' = [loaded EXCEPT ![t] = completed_files]
    /\ pc' = [pc EXCEPT ![t] = "store"]
    /\ UNCHANGED <<num_files, running, completed_files, coordVars, future,
                   loudnorm_stats, progress, history, progress_log,
                   stop_called, restVars>>

\* `self.completed_files += 1`: the write
StoreCompleted(t) ==
    /\ pc[t] = "store"
    /\ completed_files' = loaded[t] + 1
    /\ Emit(t, <<"Incremented">>)
    /\ pc' = [pc EXCEPT ![t] = "compute"]
    /\ UNCHANGED <<num_files, running, lock, coordVars, future,
                   loudnorm_stats, loaded, progress, progress_log,
                   stop_called, restVars>>

\* progress = int((self.completed_files / len(self.files_to_convert)) * 100)
ComputeProgress(t) ==
    /\ pc[t] = "compute"
    /\ progress' = [progress EXCEPT
                       ![t] = ProgressTable[num_files][completed_files]]
    /\ pc' = [pc EXCEPT ![t] = "emit"]
    /\ UNCHANGED <<num_files, running, completed_files, lock, coordVars,
                   future, loudnorm_stats, loaded, history, progress_log,
                   stop_called, restVars>>

\* self.progress.emit(progress), then the `with` block releases the lock and
\* _handle_conversion_result returns, which ends the life of its locals
EmitProgress(t) ==
    /\ pc[t] = "emit"
    /\ progress_log' = Append(progress_log, progress[t])
    /\ Emit(t, <<"Progress">>)
    /\ lock' = 0
    /\ loaded' = [loaded EXCEPT ![t] = 0]
    /\ progress' = [progress EXCEPT ![t] = 0]
    /\ pc' = [pc EXCEPT ![t] = "metadata"]
    /\ UNCHANGED <<num_files, running, completed_files, coordVars, future,
                   loudnorm_stats,
                   stop_called, restVars>>

\* _find_front_cover, _copy_cover_art and _copy_id3_tags: every failure is
\* caught inside them and reported as a Warning
MetadataTransplant(t) ==
    /\ pc[t] = "metadata"
    /\ \E m \in MetadataOutcomes : Emit(t, <<m>>)
    /\ Return(t)
    /\ UNCHANGED <<num_files, running, completed_files, lock, coordVars,
                   loudnorm_stats, loaded, progress, progress_log,
                   stop_called, restVars>>

\* `except FileNotFoundError`: after the Error event, self.running = False
ToolNotFoundHalt(t) ==
    /\ pc[t] = "halt"
    /\ running' = FALSE
    /\ Return(t)
    /\ UNCHANGED <<num_files, completed_files, lock, coordVars,
                   loudnorm_stats, loaded, progress, history, progress_log,
                   stop_called, restVars>>

(***************************************************************************)
(* _parse_loudnorm_stats.  The text of the analysis pass is a sequence of  *)
(* tokens: braces, commas, pieces of banner, and "key":"value" pairs whose *)
(* value is a sequence of characters.                                      *)
(***************************************************************************)
\* longest analysis output explored, in tokens
MaxText == 5

Tok(kind) == [kind |-> kind, key |-> "", value |-> << >>]

Pair(key, value) == [kind |-> "pair", key |-> key, value |-> value]

\* the tokens the explored texts are made of: the last pair has a value
\* float() rejects
Tokens ==
    {Tok("{"), Tok("}"), Tok(","), Tok("noise"),
     Pair("input_i", <<"-", "2", "3", ".", "5">>),
     Pair("normalization_type", <<"d", "y", "n", "a", "m", "i", "c">>),
     Pair("input_tp", <<"n", "/", "a">>)}

Texts == UNION {[1..n -> Tokens] : n \in 0..MaxText}

\* a Python str and a Python float m * 10^e, as values of a dict
Str(chars) == [kind |-> "str", m |-> 0, e |-> 0, chars |-> chars]

Num(m, e) == [kind |-> "float", m |-> m, e |-> e, chars |-> << >>]

\* an exception left the function
Raised == [kind |-> "error", dict |-> << >>]

Returned(d) == [kind |-> "dict", dict |-> d]

RECURSIVE FindFrom(_, _, _)
FindFrom(text, kind, i) ==
    IF i >= Len(text) THEN -1
    ELSE IF text[i + 1].kind = kind THEN i
    ELSE FindFrom(text, kind, i + 1)

\* str.find: the 0-based index of the first occurrence, or -1
Find(text, kind) == FindFrom(text, kind, 0)

RECURSIVE RFindFrom(_, _, _)
RFindFrom(text, kind, i) ==
    IF i < 0 THEN -1
    ELSE IF text[i + 1].kind = kind THEN i
    ELSE RFindFrom(text, kind, i - 1)

\* a search for the closing brace that stops at the first one
FindLeftmost(text, kind) == Find(text, kind)

\* str.rfind: the 0-based index of the last occurrence, or -1
RFind(text, kind) == RFindFrom(text, kind, Len(text) - 1)

\* text[a:b] for 0 <= a and 0 <= b
Slice(text, a, b) ==
    SubSeq(text, a + 1, IF b > Len(text) THEN Len(text) ELSE b)

\* dict[key] = value: a later pair replaces an earlier one of the same key
Put(d, pair) ==
    [k \in DOMAIN d \cup {pair.key} |->
        IF k = pair.key THEN Str(pair.value) ELSE d[k]]

RECURSIVE JsonMembers(_, _)
\* the members of a JSON object after its opening brace, up to the closing
\* brace that must end the document
JsonMembers(toks, d) ==
    IF toks = << >> \/ toks[1].kind # "pair" THEN Raised
    ELSE LET d2   == Put(d, toks[1])
             rest == Tail(toks)
         IN  IF rest = << >> THEN Raised
             ELSE IF rest[1].kind = "}"
             THEN IF Len(rest) = 1 THEN Returned(d2) ELSE Raised
             ELSE IF rest[1].kind = ","
             THEN JsonMembers(Tail(rest), d2)
             ELSE Raised

\* json.loads of a document: an object, and nothing after it
JsonLoads(toks) ==
    IF toks = << >> \/ toks[1].kind # "{" THEN Raised
    ELSE IF Len(toks) >= 2 /\ toks[2].kind = "}"
    THEN IF Len(toks) = 2 THEN Returned(<< >>) ELSE Raised
    ELSE JsonMembers(Tail(toks), << >>)

DigitChars == <<"0", "1", "2", "3", "4", "5", "6", "7", "8", "9">>

IsDigit(c) == \E i \in 1..Len(DigitChars) : DigitChars[i] = c

DigitValue(c) == (CHOOSE i \in 1..Len(DigitChars) : DigitChars[i] = c) - 1

RECURSIVE DecimalOf(_)
\* the number a sequence of digit characters writes
DecimalOf(cs) ==
    IF cs = << >> THEN 0
    ELSE 10 * DecimalOf(SubSeq(cs, 1, Len(cs) - 1)) + DigitValue(cs[Len(cs)])

RECURSIVE Normal(_, _)
\* m * 10^e without trailing zeros in its fraction
Normal(m, e) ==
    IF e < 0 /\ m % 10 = 0 THEN Normal(m \div 10, e + 1) ELSE Num(m, e)

\* float(value) for a str: an optional sign, digits and at most one point;
\* anything else raises ValueError
Float(value) ==
    LET signed == value # << >> /\ value[1] \in {"-", "+"}
        body   == IF signed THEN Tail(value) ELSE value
        points == {i \in 1..Len(body) : body[i] = "."}
        formed == /\ \A i \in 1..Len(body) : IsDigit(body[i]) \/ body[i] = "."
                  /\ Cardinality(points) <= 1
                  /\ \E i \in 1..Len(body) : IsDigit(body[i])
        frac   == IF points = {} THEN 0
                  ELSE Len(body) - (CHOOSE i \in points : TRUE)
        mag    == Normal(DecimalOf(SelectSeq(body, IsDigit)), 0 - frac)
    IN  IF ~formed THEN [ok |-> FALSE, val |-> Num(0, 0)]
        ELSE [ok |-> TRUE,
              val |-> IF signed /\ value[1] = "-"
                      THEN Num(0 - mag.m, mag.e) ELSE mag]

\* the loop over stats.items(): every value but that of normalization_type
\* is replaced by its float, and a value float() rejects raises
CoerceStats(d) ==
    IF \E k \in DOMAIN d : k # "normalization_type" /\ ~Float(d[k].chars).ok
    THEN Raised
    ELSE Returned([k \in DOMAIN d |->
                      IF k # "normalization_type" THEN Float(d[k].chars).val
                      ELSE d[k]])

ParseLoudnormStats(text) ==
    LET json_start == Find(text, "{")
        json_end   == RFind(text, "}")
    IN  IF json_start = -1 \/ json_end = -1 THEN Raised
        ELSE LET json_str == Slice(text, json_start, json_end + 1)
                 loads    == JsonLoads(json_str)
             IN  IF loads.kind = "error" THEN Raised
                 ELSE CoerceStats(loads.dict)

\* a call of _parse_loudnorm_stats on the text in stderr
CallParseLoudnormStats ==
    /\ parsed = NoStats
    /\ parsed' = ParseLoudnormStats(stderr)
    /\ UNCHANGED <<num_files, running, completed_files, lock, coordVars,
                   future, pc, loudnorm_stats, loaded, progress, history,
                   progress_log, stop_called, stderr, tag_value, tdrc,
                   warnings, dest_dir, output_log, tagVars, windowVars>>

\* a thread object for one file that has not been started
ThreadIdle ==
    /\ num_files = 1
    /\ running = TRUE
    /\ completed_files = 0
    /\ lock = 0
    /\ pc_run = "created"
    /\ submitted = 0
    /\ yielded = 0
    /\ future = [t \in Files |-> "none"]
    /\ pc = [t \in Files |-> "idle"]
    /\ loudnorm_stats = [t \in Files |-> "none"]
    /\ loaded = [t \in Files |-> 0]
    /\ progress = [t \in Files |-> 0]
    /\ history = [t \in Files |-> << >>]
    /\ progress_log = << >>
    /\ stop_called = FALSE

\* any analysis output of up to MaxText tokens
InitParse ==
    /\ ThreadIdle
    /\ stderr \in Texts
    /\ parsed = NoStats
    /\ tag_value = << >>
    /\ tdrc = << >>
    /\ warnings = << >>
    /\ dest_dir = "exists"
    /\ output_log = << >>
    /\ TagIdle
    /\ WindowIdle

NextParse == CallParseLoudnormStats

SpecParse == InitParse /\ [][NextParse]_vars

(***************************************************************************)
(* _handle_date_tag and _parse_year_from_date.  A date value is a sequence *)
(* of characters, the tag a list of date values.                           *)
(***************************************************************************)
\* longest list of date values explored
MaxDates == 3

\* the date values the explored tags are made of: "2020", " 2020", "1987",
\* "0", "not-a-year" and the empty string
DateValues ==
    {<<"2", "0", "2", "0">>,
     <<" ", "2", "0", "2", "0">>,
     <<"1", "9", "8", "7">>,
     <<"0">>,
     <<"n", "o", "t", "-", "a", "-", "y", "e", "a", "r">>,
     << >>}

DateTags == UNION {[1..n -> DateValues] : n \in 1..MaxDates}

RECURSIVE LStrip(_)
LStrip(chars) ==
    IF chars # << >> /\ chars[1] = " " THEN LStrip(Tail(chars)) ELSE chars

RECURSIVE RStrip(_)
RStrip(chars) ==
    IF chars # << >> /\ chars[Len(chars)] = " "
    THEN RStrip(SubSeq(chars, 1, Len(chars) - 1)) ELSE chars

\* int(date_val) for a str: blanks around it are dropped, then an optional
\* sign and at least one digit must remain; anything else raises ValueError
IntOfStr(chars) ==
    LET body   == RStrip(LStrip(chars))
        signed == body # << >> /\ body[1] \in {"-", "+"}
        digits == IF signed THEN Tail(body) ELSE body
        formed == digits # << >> /\ \A i \in 1..Len(digits) : IsDigit(digits[i])
    IN  IF ~formed THEN [ok |-> FALSE, val |-> 0]
        ELSE [ok |-> TRUE,
              val |-> IF signed /\ body[1] = "-" THEN 0 - DecimalOf(digits)
                      ELSE DecimalOf(digits)]

RECURSIVE StrOfNat(_)
StrOfNat(n) ==
    IF n < 10 THEN <<DigitChars[n + 1]>>
    ELSE Append(StrOfNat(n \div 10), DigitChars[(n % 10) + 1])

\* str(n) for an int
StrOfInt(n) == IF n < 0 THEN <<"-">> \o StrOfNat(0 - n) ELSE StrOfNat(n)

\* _parse_year_from_date: the year as a str, or None after a Warning event
ParseYearFromDate(date_val) ==
    LET r == IntOfStr(date_val)
    IN  IF r.ok THEN [ok |-> TRUE, year |-> StrOfInt(r.val)]
        ELSE [ok |-> FALSE, year |-> << >>]

\* a comprehension without its filter
KeepEvery(r) == TRUE

\* `if (year := ...)`: None and the empty str are dropped
KeepYear(r) == r.ok /\ r.year # << >>

RECURSIVE YearsOf(_)
\* the list comprehension of _handle_date_tag
YearsOf(date_values) ==
    IF date_values = << >> THEN << >>
    ELSE LET r == ParseYearFromDate(Head(date_values))
         IN  (IF KeepYear(r) THEN <<r.year>> ELSE << >>)
                 \o YearsOf(Tail(date_values))

RECURSIVE WarnedOf(_)
\* the values _parse_year_from_date emitted a Warning event for, in order
WarnedOf(date_values) ==
    IF date_values = << >> THEN << >>
    ELSE (IF ParseYearFromDate(Head(date_values)).ok THEN << >>
          ELSE <<Head(date_values)>>) \o WarnedOf(Tail(date_values))

\* a call of _handle_date_tag: TDRC is set only when some year was parsed
HandleDateTag ==
    /\ tag_value # << >>
    /\ tdrc = << >> /\ warnings = << >>
    /\ LET years == YearsOf(tag_value)
       IN  tdrc' = IF years # << >> THEN years ELSE tdrc
    /\ warnings' = WarnedOf(tag_value)
    /\ UNCHANGED <<num_files, running, completed_files, lock, coordVars,
                   future, pc, loudnorm_stats, loaded, progress, history,
                   progress_log, stop_called, stderr, parsed, tag_value,
                   dest_dir, output_log, tagVars, windowVars>>

\* any date tag of up to MaxDates values, on a destination without TDRC
InitDate ==
    /\ ThreadIdle
    /\ stderr = << >>
    /\ parsed = NoStats
    /\ tag_value \in DateTags
    /\ tdrc = << >>
    /\ warnings = << >>
    /\ dest_dir = "exists"
    /\ output_log = << >>
    /\ TagIdle
    /\ WindowIdle

NextDate == HandleDateTag

SpecDate == InitDate /\ [][NextDate]_vars

(***************************************************************************)
(* _handle_date_tag on date values that go on after the year.              *)
(***************************************************************************)
\* date values that do or do not begin with digits: "2020-05-01", "1987",
\* "1999/12" and "not-a-year"
LeadingYearValues ==
    {<<"2", "0", "2", "0", "-", "0", "5", "-", "0", "1">>,
     <<"1", "9", "8", "7">>,
     <<"1", "9", "9", "9", "/", "1", "2">>,
     <<"n", "o", "t", "-", "a", "-", "y", "e", "a", "r">>}

LeadingYearTags == UNION {[1..n -> LeadingYearValues] : n \in 1..MaxDates}

\* any date tag of up to MaxDates such values, on a destination without TDRC
InitYear ==
    /\ ThreadIdle
    /\ stderr = << >>
    /\ parsed = NoStats
    /\ tag_value \in LeadingYearTags
    /\ tdrc = << >>
    /\ warnings = << >>
    /\ dest_dir = "exists"
    /\ output_log = << >>
    /\ TagIdle
    /\ WindowIdle

SpecYear == InitYear /\ [][NextDate]_vars

(***************************************************************************)
(* The state of a batch of any size up to MaxTotal in which the first      *)
(* files were converted one after the other and the next one has just      *)
(* logged Finished: the states in which the progress arithmetic runs.      *)
(***************************************************************************)
\* what a task that converted its file has logged and done
ConvertedHistory ==
    <<"DestAbsent", "Converting", "AnalysisStart", "AnalysisExit0", "StatsParsed",
      "EncodeStart", "EncodeExit0", "Finished", "Incremented", "Progress",
      "Info">>

InitProgress ==
    /\ num_files \in 1..MaxTotal
    /\ completed_files \in 0..(num_files - 1)
    /\ running = TRUE
    /\ lock = 0
    /\ pc_run = "monitor"
    /\ submitted = num_files
    /\ yielded = 0
    /\ future = [t \in Files |->
                    IF t <= completed_files THEN "finished"
                    ELSE IF t = completed_files + 1 THEN "running"
                    ELSE "pending"]
    /\ pc = [t \in Files |->
                IF t <= completed_files THEN "returned"
                ELSE IF t = completed_files + 1 THEN "lock"
                ELSE "idle"]
    /\ loudnorm_stats = [t \in Files |->
                            IF t <= completed_files + 1 THEN "complete"
                            ELSE "none"]
    /\ loaded = [t \in Files |-> 0]
    /\ progress = [t \in Files |-> 0]
    /\ history = [t \in Files |->
                     IF t <= completed_files THEN ConvertedHistory
                     ELSE IF t = completed_files + 1
                     THEN SubSeq(ConvertedHistory, 1, 8)
                     ELSE << >>]
    /\ progress_log = [i \in 1..completed_files |-> ProgressTable[num_files][i]]
    /\ stop_called = FALSE
    /\ RestIdle

(***************************************************************************)
(* Specifications.                                                         *)
(***************************************************************************)
\* the steps of the coordinator thread
Coordinator ==
    \/ Run
    \/ SetupParallelConversion
    \/ MonitorConversionProgress
    \/ ExecutorShutdown

\* the steps of the task of one file
ConvertFile(t) ==
    \/ StartTask(t)
    \/ ConvertFileCheck(t)
    \/ ExecuteFirstPass(t)
    \/ FirstPassExit(t)
    \/ ExecuteSecondPass(t)
    \/ SecondPassExit(t)
    \/ AcquireLock(t)
    \/ StoreCompleted(t)
    \/ ComputeProgress(t)
    \/ EmitProgress(t)
    \/ MetadataTransplant(t)
    \/ ToolNotFoundHalt(t)

Next ==
    \/ Run
    \/ SetupParallelConversion
    \/ MonitorConversionProgress
    \/ ExecutorShutdown
    \/ Stop
    \/ \E t \in Files : StartTask(t)
    \/ \E t \in Files : ConvertFileCheck(t)
    \/ \E t \in Files : ExecuteFirstPass(t)
    \/ \E t \in Files : FirstPassExit(t)
    \/ \E t \in Files : ExecuteSecondPass(t)
    \/ \E t \in Files : SecondPassExit(t)
    \/ \E t \in Files : AcquireLock(t)
    \/ \E t \in Files : StoreCompleted(t)
    \/ \E t \in Files : ComputeProgress(t)
    \/ \E t \in Files : EmitProgress(t)
    \/ \E t \in Files : MetadataTransplant(t)
    \/ \E t \in Files : ToolNotFoundHalt(t)

Spec == Init /\ [][Next]_vars

\* some thread of the batch that can take a step eventually takes one:
\* threads are scheduled and every started tool invocation exits
BatchStep == Coordinator \/ \E t \in Files : ConvertFile(t)

FairSpec == Spec /\ WF_vars(BatchStep)

\* the critical section of _handle_conversion_result on batches of any size
NextProgress ==
    \/ \E t \in Files : AcquireLock(t)
    \/ \E t \in Files : StoreCompleted(t)
    \/ \E t \in Files : ComputeProgress(t)
    \/ \E t \in Files : EmitProgress(t)

SpecProgress == InitProgress /\ [][NextProgress]_vars

(***************************************************************************)
(* The metadata transplant of one file: _find_front_cover, _copy_cover_art *)
(* and _copy_id3_tags as convert_file calls them after a successful encode *)
(* pass.  A picture entry of the source is a str, written here as the      *)
(* sequence of its pieces: the base64 text of a chunk of bytes, or a       *)
(* character outside the base64 alphabet.  Bytes are sequences of chunks.  *)
(***************************************************************************)
\* longest list of picture entries explored
MaxPictures == 2

\* the pieces of text and the bytes base64 decodes them to: the picture type
\* field of a FLAC picture block holding 3 (front cover) or 4 (back cover),
\* the other header fields of the block, the PNG signature, image bytes
Base64Table ==
    {[text |-> "<type3>", bytes |-> "type3"],
     [text |-> "<type4>", bytes |-> "type4"],
     [text |-> "<header>", bytes |-> "header"],
     [text |-> "<png>", bytes |-> "png"],
     [text |-> "<image>", bytes |-> "image"]}

InAlphabet(c) == \E r \in Base64Table : r.text = c

\* the picture entries the explored sources are made of: the empty str, a
\* front cover block, a back cover block, a bare PNG, a bare JPEG, a block
\* cut after its type field, and text that is not base64
PictureValues ==
    {<< >>,
     <<"<type3>", "<header>", "<image>">>,
     <<"<type4>", "<header>", "<image>">>,
     <<"<png>", "<image>">>,
     <<"<image>">>,
     <<"<type3>">>,
     <<"!", "<image>">>}

\* opus_audio.tags.get("metadata_block_picture"): the entries, none when the
\* source has no such tag
PictureTags == UNION {[1..n -> PictureValues] : n \in 0..MaxPictures}

\* the APIC frame ffmpeg may have written into the destination file
EncoderCover == [mime |-> "image/png", data |-> <<"encoded">>]

\* base64.b64decode(s, validate=True): raises on a character outside the
\* alphabet
B64DecodeStrict(s) ==
    IF \A i \in 1..Len(s) : InAlphabet(s[i])
    THEN [ok |-> TRUE,
          bytes |-> [i \in 1..Len(s) |->
                        (CHOOSE r \in Base64Table : r.text = s[i]).bytes]]
    ELSE [ok |-> FALSE, bytes |-> << >>]

\* base64.b64decode(s): characters outside the alphabet are discarded
B64Decode(s) == B64DecodeStrict(SelectSeq(s, InAlphabet)).bytes

\* s.encode("utf-8"): the bytes of the text itself
Utf8Encode(s) == [i \in 1..Len(s) |-> "text"]

\* _decode_picture_data on a str
DecodePictureData(pic_data_b64) ==
    LET r == B64DecodeStrict(pic_data_b64)
    IN  IF r.ok THEN r.bytes ELSE Utf8Encode(pic_data_b64)

\* Picture(pic_data) parses the block: it needs the type field and the
\* header fields, and takes what follows as the image
Parses(pic_data) ==
    /\ Len(pic_data) >= 2
    /\ pic_data[1] \in {"type3", "type4"}
    /\ pic_data[2] = "header"

\* picture.type of a block that parses
PictureType(pic_data) == IF pic_data[1] = "type3" THEN 3 ELSE 4

\* the Picture of a block that parses; the header names the MIME type
PictureOf(pic_data) ==
    [kind |-> "Picture", mime |-> "image/jpeg",
     data |-> SubSeq(pic_data, 3, Len(pic_data))]

\* _create_picture_object: the Picture when it parses with type 3, else None
CreatePictureObject(pic_data) ==
    IF Parses(pic_data) /\ PictureType(pic_data) = 3
    THEN PictureOf(pic_data) ELSE NoPicture

\* _create_apic_frame: an APIC frame of type 3 around the bytes as they are
CreateApicFrame(pic_data) ==
    [kind |-> "APIC",
     mime |-> IF pic_data[1] = "png" THEN "image/png" ELSE "image/jpeg",
     data |-> pic_data]

RECURSIVE PictureLoop(_)
\* the for loop of _get_picture_from_metadata_block, and the Warning after it
PictureLoop(pictures) ==
    IF pictures = << >> THEN [picture |-> NoPicture, log |-> <<"Warning">>]
    ELSE LET pic_data == DecodePictureData(Head(pictures))
         IN  IF pic_data = << >> THEN PictureLoop(Tail(pictures))
             ELSE IF CreatePictureObject(pic_data) # NoPicture
             THEN [picture |-> CreatePictureObject(pic_data), log |-> << >>]
             ELSE [picture |-> CreateApicFrame(pic_data), log |-> << >>]

\* _get_picture_from_metadata_block: what it returns and what it logs
GetPictureFromMetadataBlock(metadata_block_pictures) ==
    IF metadata_block_pictures = << >>
    THEN [picture |-> NoPicture, log |-> <<"Warning">>]
    ELSE PictureLoop(metadata_block_pictures)

\* `if opus_audio.tags:` holds when the source has some tag
HasTags(src) == src.title \/ src.pictures # << >>

\* an exception that leaves the function it was raised in
ExceptionEscapes(function) == FALSE

\* each function of the transplant wraps its body in try / except Exception
ExceptionCaught(function) == TRUE

\* the end of a step of the transplant that logged `log`: a raised exception
\* is reported as a Warning by the function and convert_file goes on to
\* `next`; one that escaped would reach `except Exception` of convert_file
Report(t, function, log, raised, next) ==
    IF raised /\ ~ExceptionCaught(function)
    THEN /\ Emit(t, log \o <<"Error">>)
         /\ Return(t)
    ELSE /\ Emit(t, log \o (IF raised THEN <<"Warning">> ELSE << >>))
         /\ pc' = [pc EXCEPT ![t] = next]
         /\ future' = [future EXCEPT ![t] =
                          IF next = "returned" THEN "finished" ELSE @]

\* picture = self._find_front_cover(src_path, opus_file); `if picture:`
FindFrontCover(t) ==
    /\ pc[t] = "metadata"
    /\ LET raised == ~src_file.readable
           found  == IF raised THEN [picture |-> NoPicture, log |-> << >>]
                     ELSE IF HasTags(src_file)
                     THEN GetPictureFromMetadataBlock(src_file.pictures)
                     ELSE [picture |-> NoPicture, log |-> <<"Warning">>]
       IN  /\ picture' = found.picture
           /\ Report(t, "_find_front_cover", found.log, raised,
                     IF found.picture # NoPicture THEN "copy_cover"
                     ELSE "copy_tags")
    /\ UNCHANGED <<num_files, running, completed_files, lock, coordVars,
                   loudnorm_stats, loaded, progress, progress_log,
                   stop_called, stderr, parsed, tag_value, tdrc, warnings,
                   dest_dir, output_log, src_file, dest_file, mp3_tags,
                   windowVars>>

\* the body of _copy_cover_art on the file `disk`: MP3(mp3_path) reads the
\* file; missing tags are created and saved; then the APIC frames are
\* replaced by the picture in mp3_audio.tags, and the function ends
CoverArt(disk, cover) ==
    IF ~disk.readable \/ (~disk.tagged /\ ~disk.writable)
    THEN [raised |-> TRUE, disk |-> disk, tags |-> << >>]
    ELSE [raised |-> FALSE,
          disk |-> [disk EXCEPT !.tagged = TRUE],
          tags |-> <<[mime |-> cover.mime, data |-> cover.data]>>]

\* self._copy_cover_art(dest_path, picture)
CopyCoverArt(t) ==
    /\ pc[t] = "copy_cover"
    /\ LET r == CoverArt(dest_file, picture)
       IN  /\ dest_file' = r.disk
           /\ mp3_tags' = r.tags
           /\ Report(t, "_copy_cover_art", << >>, r.raised, "copy_tags")
    /\ UNCHANGED <<num_files, running, completed_files, lock, coordVars,
                   loudnorm_stats, loaded, progress, progress_log,
                   stop_called, stderr, parsed, tag_value, tdrc, warnings,
                   dest_dir, output_log, src_file, picture, windowVars>>

\* _handle_cover_art, which _process_opus_tags calls on the picture tag: the
\* first entry is decoded and parsed, whatever its type; _copy_cover_art
\* reports its own failure, and "Copied cover art" is logged after it
HandleCoverArt(picture_data, disk) ==
    LET pic_data == B64Decode(picture_data[1])
        r        == CoverArt(disk, PictureOf(pic_data))
    IN  IF ~Parses(pic_data)
        THEN [log |-> <<"Warning">>, disk |-> disk, tags |-> mp3_tags]
        ELSE [log |-> (IF r.raised THEN <<"Warning">> ELSE << >>)
                          \o <<"Info">>,
              disk |-> r.disk, tags |-> r.tags]

\* the body of _copy_id3_tags: both files are opened, the tags of the source
\* are copied into mp3_audio.tags, which holds the frames read from the file,
\* and mp3_audio.save() writes them
Id3Tags(src, disk) ==
    IF ~src.readable \/ ~disk.readable
    THEN [raised |-> TRUE, log |-> << >>, disk |-> disk, tags |-> mp3_tags]
    ELSE IF ~HasTags(src)
    THEN [raised |-> FALSE, log |-> << >>, disk |-> disk, tags |-> mp3_tags]
    ELSE LET cover == IF src.pictures # << >>
                      THEN HandleCoverArt(src.pictures, disk)
                      ELSE [log |-> << >>, disk |-> disk, tags |-> mp3_tags]
         IN  IF ~disk.writable
             THEN [raised |-> TRUE, log |-> cover.log, disk |-> cover.disk,
                   tags |-> cover.tags]
             ELSE [raised |-> FALSE, log |-> cover.log \o <<"Info">>,
                   disk |-> [disk EXCEPT !.tagged = TRUE,
                                         !.title = @ \/ src.title],
                   tags |-> cover.tags]

\* self._copy_id3_tags(src_path, dest_path), after which convert_file ends
CopyId3Tags(t) ==
    /\ pc[t] = "copy_tags"
    /\ LET r == Id3Tags(src_file, dest_file)
       IN  /\ dest_file' = r.disk
           /\ mp3_tags' = r.tags
           /\ Report(t, "_copy_id3_tags", r.log, r.raised, "returned")
    /\ UNCHANGED <<num_files, running, completed_files, lock, coordVars,
                   loudnorm_stats, loaded, progress, progress_log,
                   stop_called, stderr, parsed, tag_value, tdrc, warnings,
                   dest_dir, output_log, src_file, picture, windowVars>>

\* the source files explored: one OggOpus cannot read, or one with or without
\* a title and with any picture entries
SourceFiles ==
    [readable : BOOLEAN, title : BOOLEAN, pictures : PictureTags]

\* the destination files the encode pass can leave: one MP3 cannot read, one
\* without an ID3 tag, one with a tag, with or without a cover of ffmpeg's;
\* the file may refuse to be written
DestinationFiles ==
    {d \in [readable : BOOLEAN, writable : BOOLEAN, tagged : BOOLEAN,
            title : {FALSE}, apic : {<< >>, <<EncoderCover>>}] :
        d.apic # << >> => d.tagged}

\* a batch of one file whose task has logged Finished and emitted its
\* progress, and is about to call _find_front_cover
InitTransplant ==
    /\ num_files = 1
    /\ running = TRUE
    /\ completed_files = 1
    /\ lock = 0
    /\ pc_run = "monitor"
    /\ submitted = 1
    /\ yielded = 0
    /\ future = [t \in Files |-> "running"]
    /\ pc = [t \in Files |-> "metadata"]
    /\ loudnorm_stats = [t \in Files |-> "complete"]
    /\ loaded = [t \in Files |-> 0]
    /\ progress = [t \in Files |-> 0]
    /\ history = [t \in Files |-> SubSeq(ConvertedHistory, 1, 10)]
    /\ progress_log = <<ProgressTable[1][1]>>
    /\ stop_called = FALSE
    /\ stderr = << >>
    /\ parsed = NoStats
    /\ tag_value = << >>
    /\ tdrc = << >>
    /\ warnings = << >>
    /\ dest_dir = "exists"
    /\ output_log = << >>
    /\ src_file \in SourceFiles
    /\ dest_file \in DestinationFiles
    /\ picture = NoPicture
    /\ mp3_tags = << >>
    /\ WindowIdle

NextTransplant ==
    \/ \E t \in Files : FindFrontCover(t)
    \/ \E t \in Files : CopyCoverArt(t)
    \/ \E t \in Files : CopyId3Tags(t)
    \/ MonitorConversionProgress
    \/ ExecutorShutdown

SpecTransplant == InitTransplant /\ [][NextTransplant]_vars

(***************************************************************************)
(* The window: OpusToMp3Converter.start_conversion, from which a batch     *)
(* starts.  pc_run = "none" while conversion_thread is None; num_files is  *)
(* the number of rows checked in the file table.                           *)
(***************************************************************************)
\* most lines of output_log for which start_conversion is explored
MaxLog == 2

\* what the disk holds at the path of dest_line_edit: "unset" when the
\* line is empty, "blocked" when os.makedirs cannot create the directory
DestinationStates == {"unset", "absent", "blocked", "exists"}

\* a validation that takes every creation for done
CreationAssumed(d) == FALSE

\* os.makedirs(dest_dir) raises OSError
CreationFailed(d) == d = "blocked"

\* _validate_destination_directory: whether it returns the directory, what
\* it appends to output_log and what the disk holds afterwards
ValidateDestinationDirectory(d) ==
    IF d = "unset"
    THEN [ok |-> FALSE, disk |-> d,
          log |-> <<"Destination directory not set.">>]
    ELSE IF d = "exists"
    THEN [ok |-> TRUE, disk |-> d, log |-> << >>]
    ELSE IF CreationFailed(d)
    THEN [ok |-> FALSE, disk |-> d,
          log |-> <<"Error creating destination directory">>]
    ELSE [ok |-> TRUE, disk |-> IF d = "absent" THEN "exists" ELSE d,
          log |-> <<"Created destination directory">>]

\* start_conversion: it returns when the directory is not valid or no row
\* is checked; otherwise _prepare_conversion_ui clears output_log and the
\* ConversionThread is created and started
StartConversion ==
    /\ pc_run = "none"
    /\ Len(output_log) < MaxLog
    /\ LET v == ValidateDestinationDirectory(dest_dir)
       IN  /\ dest_dir' = v.disk
           /\ IF ~v.ok
              THEN /\ output_log' = output_log \o v.log
                   /\ pc_run' = pc_run
              ELSE IF num_files = 0
              THEN /\ output_log' = output_log \o v.log
                                       \o <<"No files selected for conversion.">>
                   /\ pc_run' = pc_run
              ELSE /\ output_log' = << >>
                   /\ pc_run' = "created"
    /\ UNCHANGED <<num_files, running, completed_files, lock, submitted,
                   yielded, future, pc, loudnorm_stats, loaded, progress,
                   history, progress_log, stop_called, stderr, parsed,
                   tag_value, tdrc, warnings, tagVars, windowVars>>

\* the window before Convert is pressed: any number of checked rows, any
\* state of the destination directory, no thread
InitStart ==
    /\ num_files \in 0..MaxJobs
    /\ running = TRUE
    /\ completed_files = 0
    /\ lock = 0
    /\ pc_run = "none"
    /\ submitted = 0
    /\ yielded = 0
    /\ future = [t \in Files |-> "none"]
    /\ pc = [t \in Files |-> "idle"]
    /\ loudnorm_stats = [t \in Files |-> "none"]
    /\ loaded = [t \in Files |-> 0]
    /\ progress = [t \in Files |-> 0]
    /\ history = [t \in Files |-> << >>]
    /\ progress_log = << >>
    /\ stop_called = FALSE
    /\ stderr = << >>
    /\ parsed = NoStats
    /\ tag_value = << >>
    /\ tdrc = << >>
    /\ warnings = << >>
    /\ dest_dir \in DestinationStates
    /\ output_log = << >>
    /\ TagIdle
    /\ WindowIdle

NextStart == StartConversion \/ Next

SpecStart == InitStart /\ [][NextStart]_vars

(***************************************************************************)
(* The window's file table: refresh_files fills it from the source         *)
(* directory and _get_selected_files turns its checked rows into the jobs  *)
(* of a batch, whose destination paths convert_file computes.  A name or a *)
(* path is a sequence of pieces: a separator, a dot, a run of letters.     *)
(***************************************************************************)
\* the names a source directory may hold: "a.opus", "b.opus", "a.b.opus",
\* ".opus", ".opus.opus", "a.mp3" and "opus"
FileNames ==
    {<<"a", ".", "opus">>,
     <<"b", ".", "opus">>,
     <<"a", ".", "b", ".", "opus">>,
     <<".", "opus">>,
     <<".", "opus", ".", "opus">>,
     <<"a", ".", "mp3">>,
     <<"opus">>}

\* the order in which os.listdir returns the names it finds
ListOrder ==
    <<<<".", "opus">>,
      <<".", "opus", ".", "opus">>,
      <<"a", ".", "b", ".", "opus">>,
      <<"a", ".", "mp3">>,
      <<"a", ".", "opus">>,
      <<"b", ".", "opus">>,
      <<"opus">>>>

\* src_line_edit.text() and the dest_dir given to the thread
SourceDirectory == <<"music">>

DestinationDirectory == <<"mp3">>

\* s.endswith(suffix)
EndsWith(s, suffix) ==
    /\ Len(s) >= Len(suffix)
    /\ SubSeq(s, Len(s) - Len(suffix) + 1, Len(s)) = suffix

\* s.rfind(c), counted from 1, 0 when c is not in s
LastIndex(s, c) ==
    IF \E i \in 1..Len(s) : s[i] = c
    THEN CHOOSE i \in 1..Len(s) :
            s[i] = c /\ \A j \in (i + 1)..Len(s) : s[j] # c
    ELSE 0

\* os.path.join(directory, name) for a name without separator
Join(directory, name) == directory \o <<"/">> \o name

\* os.path.basename(path)
Basename(path) == SubSeq(path, LastIndex(path, "/") + 1, Len(path))

\* os.path.splitext(name)[0] for a name without separator: the name up to
\* its last dot, unless only dots come before that dot
SplitExtRoot(name) ==
    LET dot == LastIndex(name, ".")
    IN  IF dot > 0 /\ \E i \in 1..(dot - 1) : name[i] # "."
        THEN SubSeq(name, 1, dot - 1)
        ELSE name

\* dest_path of convert_file for a job
DestPath(src_path) ==
    Join(DestinationDirectory,
         SplitExtRoot(Basename(src_path)) \o <<".", "mp3">>)

\* _get_opus_files: the names of the directory that end with ".opus"
GetOpusFiles(names) ==
    SelectSeq(ListOrder, LAMBDA f : f \in names /\ EndsWith(f, <<".", "opus">>))

\* refresh_files: one checked row for each Opus file of the directory
RefreshFiles ==
    /\ file_table = << >>
    /\ files_to_convert = << >>
    /\ file_table' = [i \in 1..Len(GetOpusFiles(listing)) |->
                         [name |-> GetOpusFiles(listing)[i], checked |-> TRUE]]
    /\ UNCHANGED <<num_files, running, completed_files, lock, coordVars,
                   future, pc, loudnorm_stats, loaded, progress, history,
                   progress_log, stop_called, stderr, parsed, tag_value,
                   tdrc, warnings, dest_dir, output_log, tagVars, listing,
                   files_to_convert, is_converting, later_threads,
                   finished_signal>>

\* the user clicks the check box of a row
ToggleRow ==
    /\ files_to_convert = << >>
    /\ \E i \in 1..Len(file_table) :
          file_table' = [file_table EXCEPT ![i].checked = ~@]
    /\ UNCHANGED <<num_files, running, completed_files, lock, coordVars,
                   future, pc, loudnorm_stats, loaded, progress, history,
                   progress_log, stop_called, stderr, parsed, tag_value,
                   tdrc, warnings, dest_dir, output_log, tagVars, listing,
                   files_to_convert, is_converting, later_threads,
                   finished_signal>>

\* _get_selected_files: the paths of the checked rows, in table order
GetSelectedFiles ==
    /\ files_to_convert = << >>
    /\ LET checked == SelectSeq(file_table, LAMBDA row : row.checked)
       IN  files_to_convert' =
               [i \in 1..Len(checked) |-> Join(SourceDirectory, checked[i].name)]
    /\ UNCHANGED <<num_files, running, completed_files, lock, coordVars,
                   future, pc, loudnorm_stats, loaded, progress, history,
                   progress_log, stop_called, stderr, parsed, tag_value,
                   tdrc, warnings, dest_dir, output_log, tagVars, listing,
                   file_table, is_converting, later_threads,
                   finished_signal>>

\* a source directory holding any of the names, before the table is filled
InitSelect ==
    /\ ThreadIdle
    /\ stderr = << >>
    /\ parsed = NoStats
    /\ tag_value = << >>
    /\ tdrc = << >>
    /\ warnings = << >>
    /\ dest_dir = "exists"
    /\ output_log = << >>
    /\ TagIdle
    /\ listing \in SUBSET FileNames
    /\ file_table = << >>
    /\ files_to_convert = << >>
    /\ is_converting = FALSE
    /\ later_threads = 0
    /\ finished_signal = "connected"

NextSelect ==
    \/ RefreshFiles
    \/ ToggleRow
    \/ GetSelectedFiles

SpecSelect == InitSelect /\ [][NextSelect]_vars

(***************************************************************************)
(* The window's Convert and Cancel buttons around the thread of a batch.   *)
(* The first ConversionThread the window starts is followed step by step;  *)
(* of the threads started after it only their number is kept, and they are *)
(* taken as running from their start on.                                   *)
(***************************************************************************)
\* most ConversionThreads started after the first one
MaxRestarts == 1

\* conversion_thread.isRunning() for the first thread: from start() until
\* run() has returned
FirstThreadRunning == pc_run \in {"created", "submit", "monitor", "shutdown"}

\* `self.conversion_thread and self.conversion_thread.isRunning()`: the
\* window refers to the thread it started last
ThreadRunning ==
    IF later_threads = 0 THEN FirstThreadRunning ELSE pc_run # "none"

\* a click on convert_button, enabled while is_converting is False:
\* start_conversion validates the directory and the selection, disables the
\* button, clears the log, and _setup_conversion_thread disconnects
\* `finished` of a thread that is still running before it replaces it by a
\* new thread, which is started
ConvertClicked ==
    /\ ~is_converting
    /\ later_threads < MaxRestarts
    /\ LET v == ValidateDestinationDirectory(dest_dir)
       IN  /\ dest_dir' = v.disk
           /\ IF ~v.ok \/ num_files = 0
              THEN /\ output_log' =
                          output_log \o v.log
                              \o (IF v.ok
                                  THEN <<"No files selected for conversion.">>
                                  ELSE << >>)
                   /\ UNCHANGED <<pc_run, is_converting, later_threads,
                                  finished_signal>>
              ELSE /\ output_log' = << >>
                   /\ is_converting' = TRUE
                   /\ finished_signal' =
                          IF later_threads = 0 /\ FirstThreadRunning
                          THEN "disconnected" ELSE finished_signal
                   /\ IF pc_run = "none"
                      THEN /\ pc_run' = "created"
                           /\ later_threads' = later_threads
                      ELSE /\ pc_run' = pc_run
                           /\ later_threads' = later_threads + 1
    /\ UNCHANGED <<num_files, running, completed_files, lock, submitted,
                   yielded, future, pc, loudnorm_stats, loaded, progress,
                   history, progress_log, stop_called, stderr, parsed,
                   tag_value, tdrc, warnings, tagVars, listing, file_table,
                   files_to_convert>>

\* a click on cancel_button, enabled while is_converting is True:
\* cancel_conversion calls stop() on a running thread, logs, and enables the
\* Convert button again
CancelClicked ==
    /\ is_converting
    /\ IF ThreadRunning
       THEN /\ output_log' = Append(output_log, "Conversion cancelled.")
            /\ is_converting' = FALSE
            /\ IF later_threads = 0
               THEN /\ running' = StopAssigns
                    /\ stop_called' = TRUE
               ELSE UNCHANGED <<running, stop_called>>
       ELSE UNCHANGED <<output_log, is_converting, running, stop_called>>
    /\ UNCHANGED <<num_files, completed_files, lock, coordVars, future, pc,
                   loudnorm_stats, loaded, progress, history, progress_log,
                   stderr, parsed, tag_value, tdrc, warnings, dest_dir,
                   tagVars, listing, file_table, files_to_convert,
                   later_threads, finished_signal>>

\* conversion_finished, the slot of the first thread's `finished`, which
\* fires after run() has returned unless it was disconnected
ConversionFinished ==
    /\ pc_run = "done"
    /\ finished_signal = "connected"
    /\ finished_signal' = "delivered"
    /\ output_log' = Append(output_log, "Conversion complete.")
    /\ is_converting' = FALSE
    /\ UNCHANGED <<num_files, running, completed_files, lock, coordVars,
                   future, pc, loudnorm_stats, loaded, progress, history,
                   progress_log, stop_called, stderr, parsed, tag_value,
                   tdrc, warnings, dest_dir, tagVars, listing, file_table,
                   files_to_convert, later_threads>>

\* the window before its first batch, with one file selected and a
\* destination directory that exists or can be created
InitWindow ==
    /\ num_files = 1
    /\ running = TRUE
    /\ completed_files = 0
    /\ lock = 0
    /\ pc_run = "none"
    /\ submitted = 0
    /\ yielded = 0
    /\ future = [t \in Files |-> "none"]
    /\ pc = [t \in Files |-> "idle"]
    /\ loudnorm_stats = [t \in Files |-> "none"]
    /\ loaded = [t \in Files |-> 0]
    /\ progress = [t \in Files |-> 0]
    /\ history = [t \in Files |-> << >>]
    /\ progress_log = << >>
    /\ stop_called = FALSE
    /\ stderr = << >>
    /\ parsed = NoStats
    /\ tag_value = << >>
    /\ tdrc = << >>
    /\ warnings = << >>
    /\ dest_dir \in {"absent", "exists"}
    /\ output_log = << >>
    /\ TagIdle
    /\ WindowIdle

NextWindow ==
    \/ ConvertClicked
    \/ CancelClicked
    \/ ConversionFinished
    \/ Run
    \/ SetupParallelConversion
    \/ MonitorConversionProgress
    \/ ExecutorShutdown
    \/ \E t \in Files : StartTask(t)
    \/ \E t \in Files : ConvertFileCheck(t)
    \/ \E t \in Files : ExecuteFirstPass(t)
    \/ \E t \in Files : FirstPassExit(t)
    \/ \E t \in Files : ExecuteSecondPass(t)
    \/ \E t \in Files : SecondPassExit(t)
    \/ \E t \in Files : AcquireLock(t)
    \/ \E t \in Files : StoreCompleted(t)
    \/ \E t \in Files : ComputeProgress(t)
    \/ \E t \in Files : EmitProgress(t)
    \/ \E t \in Files : MetadataTransplant(t)
    \/ \E t \in Files : ToolNotFoundHalt(t)

SpecWindow == InitWindow /\ [][NextWindow]_vars

(***************************************************************************)
(* Properties.                                                             *)
(***************************************************************************)
\* positions of an item in a file's history
Places(t, item) == {i \in 1..Len(history[t]) : history[t][i] = item}

\* number of times an item occurs over all files
Total(item) == Cardinality(UNION {{<<t, i>> : i \in Places(t, item)} : t \in Files})

\* files whose encode pass exited with code 0
Succeeded == {t \in Files : Has(t, "EncodeExit0")}

\* the file's task ended in an error outcome
ErrorOutcome(t) == Has(t, "Error") \/ Has(t, "ToolNotFound")

\* the file's analysis pass could not find the tool
AnalysisToolMissing(t) ==
    \E i \in Places(t, "AnalysisStart") :
        i < Len(history[t]) /\ history[t][i + 1] = "ToolNotFound"

\* a ToolNotFound of an analysis pass has set the cancellation state
ToolHalted == \E u \in Files : AnalysisToolMissing(u) /\ pc[u] = "returned"

\* C1: every progress value emitted lies in 0..100 and the sequence of
\* emitted values never decreases, whatever the interleaving of the tasks
C1_ProgressBoundedMonotone ==
    \A i \in 1..Len(progress_log) :
        /\ progress_log[i] \in 0..100
        /\ i > 1 => progress_log[i - 1] <= progress_log[i]

\* two files finish out of order: the second file has reported 50 and the
\* first is about to report 100
C1_Witness ==
    /\ progress_log = <<50>>
    /\ Has(2, "Progress")
    /\ pc[1] = "emit"
    /\ progress[1] = 100

\* C2: once the batch has settled, completed_files is the number of files
\* whose encode pass exited with code 0
C2_CompletedCountsSuccesses ==
    pc_run = "done" => completed_files = Cardinality(Succeeded)

\* a settled batch in which both files were converted and counted
C2_Witness ==
    /\ pc_run = "done"
    /\ completed_files = 2
    /\ Len(progress_log) = 2

\* C3: 100 is emitted only if every file succeeded, and a settled batch in
\* which every file succeeded has emitted 100
C3_HundredIffAllSucceeded ==
    LET hundred == \E i \in 1..Len(progress_log) : progress_log[i] = 100
    IN  /\ hundred => Succeeded = Files
        /\ (pc_run = "done" /\ Succeeded = Files) => hundred

\* a settled batch with a success and a failure, and no 100 among its events
C3_Witness ==
    /\ pc_run = "done"
    /\ Len(progress_log) = 1
    /\ progress_log[1] = 50
    /\ \E t \in Files : Has(t, "EncodeExit1")

\* C4: the progress value a task is about to emit is
\* floor(100 * completed_files / len(files_to_convert)) for the counter
\* value its increment produced
C4_ProgressIsFloor ==
    \A t \in Files :
        pc[t] = "emit" => progress[t] = (100 * completed_files) \div num_files

\* C5: completed_files never decreases, and a task with an error outcome has
\* neither incremented it nor emitted a progress event
C5_ErrorsLeaveCounter ==
    /\ [][completed_files' >= completed_files]_vars
    /\ [](\A t \in Files :
            ErrorOutcome(t) =>
                ~Has(t, "Incremented") /\ ~Has(t, "Progress"))

\* one file failed in its encode pass after the other one was counted
C5_Witness ==
    /\ completed_files = 1
    /\ \E t \in Files : pc[t] = "returned" /\ Has(t, "EncodeExit1")

\* C6: once self.running is False no step of the batch makes it True again
C6_CancelledStaysSet == [][~running => ~running']_vars

\* stop() was called and a ToolNotFound was handled, in the same batch
C6_Witness ==
    /\ ~running
    /\ stop_called
    /\ \E t \in Files : Has(t, "ToolNotFound") /\ pc[t] = "returned"

\* C7: no more analysis passes start than there are files, and once stop()
\* has been called the batch terminates and run() returns
C7_StopStillCompletes ==
    /\ [](Total("AnalysisStart") <= num_files)
    /\ stop_called ~> pc_run = "done"

\* run() has returned after a stop() that dropped one file while another
\* had started its analysis pass
C7_Witness ==
    /\ pc_run = "done"
    /\ stop_called
    /\ \E t \in Files : future[t] = "cancelled"
    /\ \E t \in Files : Has(t, "AnalysisStart")

\* every task has ended: it ran to the end of convert_file, or was cancelled
\* before it started
TasksSettled ==
    /\ lock = 0
    /\ \A t \in Files :
          \/ future[t] = "finished" /\ pc[t] = "returned"
          \/ future[t] = "cancelled" /\ pc[t] = "idle" /\ history[t] = << >>

\* C8: run() returns only when every task has settled, and afterwards no
\* task moves or emits anything
C8_NotificationAfterSettled ==
    /\ [](pc_run = "done" => TasksSettled)
    /\ [][pc_run = "done" =>
            /\ history' = history
            /\ progress_log' = progress_log
            /\ pc' = pc
            /\ future' = future]_vars

\* run() has returned; one task returned at its flag check, another had
\* emitted its progress event
C8_Witness ==
    /\ pc_run = "done"
    /\ \E t \in Files : pc[t] = "returned" /\ history[t] = << >>
    /\ \E t \in Files : Has(t, "Progress")

C10_OneToolNotFoundError == Total("ToolNotFound") <= 1

\* the file's task ended in a failure that is local to the file: a non-zero
\* exit of a pass, or analysis output that gave no usable stats
LocalFailure(t) ==
    \/ Has(t, "AnalysisExit1")
    \/ Has(t, "StatsFailed")
    \/ Has(t, "EncodeExit1")
    \/ (loudnorm_stats[t] = "incomplete" /\ pc[t] = "returned")

\* C11: a step in which a pass exits non-zero or the stats fail to parse
\* leaves the cancellation state as it is; the flag is cleared only by stop()
\* or by the handler of a ToolNotFound; and in a batch that ended with the
\* flag still set every file's task started its work and ran to its end,
\* whatever failed in the other files
C11_LocalFailuresDoNotHalt ==
    /\ [][(running /\ ~running') =>
             \/ (~stop_called /\ stop_called')
             \/ \E t \in Files : pc[t] = "halt" /\ pc'[t] = "returned"]_vars
    /\ [](\A t \in Files :
            (LocalFailure(t) /\ ~stop_called /\ Total("ToolNotFound") = 0)
                => running)
    /\ []((pc_run = "done" /\ running) =>
            \A t \in Files :
                /\ future[t] = "finished"
                /\ Has(t, "AnalysisStart"))

\* a settled batch, never cancelled, in which the first file failed in its
\* analysis pass and the second file was converted after that failure
C11_Witness ==
    /\ pc_run = "done"
    /\ running
    /\ Has(1, "AnalysisExit1")
    /\ num_files = 2
    /\ Has(2, "Finished")
    /\ progress_log = <<50>>

\* the file's task passed its start check
StartedWork(t) == history[t] # << >>

\* positions of the tool invocations in a file's history
Invocations(t) == Places(t, "AnalysisStart") \cup Places(t, "EncodeStart")

\* C12: a task that starts work emits exactly one of Overwriting and
\* Converting, before any tool invocation for its file: Overwriting when the
\* destination path existed at the check and Converting when it did not; the
\* encode pass is invoked with -y, so it is never refused because the
\* destination exists
C12_OverwritingOrConverting ==
    \A t \in Files :
        /\ StartedWork(t) =>
              /\ Cardinality(Places(t, "Overwriting")
                              \cup Places(t, "Converting")) = 1
              /\ \A i \in Places(t, "Overwriting") \cup Places(t, "Converting") :
                     \A j \in Invocations(t) : i < j
              /\ Has(t, "Overwriting") <=> Has(t, "DestExists")
              /\ Has(t, "Converting") <=> Has(t, "DestAbsent")
        /\ Has(t, "EncodeStart") => Overwrites(SecondPassCommand)
        /\ ~Has(t, "EncodeRefused")

\* a file whose destination existed was announced with Overwriting and its
\* encode pass replaced the destination; the other file was new
C12_Witness ==
    /\ \E t \in Files :
          /\ Has(t, "DestExists")
          /\ Has(t, "Overwriting")
          /\ Has(t, "EncodeExit0")
          /\ Has(t, "Finished")
    /\ \E t \in Files : Has(t, "Converting") /\ Has(t, "AnalysisStart")

\* the places of a kind of token in a text
At(text, kind) == {i \in 1..Len(text) : text[i].kind = kind}

Least(S) == CHOOSE x \in S : \A y \in S : x <= y

Greatest(S) == CHOOSE x \in S : \A y \in S : y <= x

\* the tokens from the first "{" to the last "}" of a text that has both
Span(text) ==
    LET a == Least(At(text, "{"))
        b == Greatest(At(text, "}"))
    IN  [k \in 1..(b - a + 1) |-> text[a + k - 1]]

\* the span writes an object: braces around pairs separated by commas
WritesObject(span) ==
    /\ Len(span) >= 2
    /\ span[1].kind = "{"
    /\ span[Len(span)].kind = "}"
    /\ LET n == Len(span) - 2
       IN  /\ n = 0 \/ n % 2 = 1
           /\ \A k \in 1..n :
                 span[k + 1].kind = IF k % 2 = 1 THEN "pair" ELSE ","

\* the object a span writes: each key with the value of its last pair
ObjectOf(span) ==
    LET pairs == At(span, "pair")
    IN  [k \in {span[i].key : i \in pairs} |->
            span[Greatest({i \in pairs : span[i].key = k})].value]

\* the numbers written by the values of the explored texts
NumberTable == {[chars |-> <<"-", "2", "3", ".", "5">>, num |-> Num(-235, -1)]}

IsNumber(value) == \E r \in NumberTable : r.chars = value

NumberOf(value) == (CHOOSE r \in NumberTable : r.chars = value).num

\* C13: _parse_loudnorm_stats raises when the text has no "{" or no "}" or
\* when the span from the first "{" to the last "}" does not write an object
\* (or writes a field that is no number); otherwise it returns the object of
\* that span, whatever surrounds it, with normalization_type as its string
\* and every other field as the number its value writes
C13_ParseReturnsSpan ==
    parsed # NoStats =>
        IF At(stderr, "{") = {} \/ At(stderr, "}") = {}
        THEN parsed = Raised
        ELSE IF ~WritesObject(Span(stderr))
        THEN parsed = Raised
        ELSE LET obj == ObjectOf(Span(stderr))
             IN  IF \E k \in DOMAIN obj :
                        k # "normalization_type" /\ ~IsNumber(obj[k])
                 THEN parsed = Raised
                 ELSE parsed = Returned(
                          [k \in DOMAIN obj |->
                              IF k = "normalization_type" THEN Str(obj[k])
                              ELSE NumberOf(obj[k])])

\* the stats were returned from a text with banner before and after the
\* object, whose field is a number
C13_Witness ==
    /\ parsed.kind = "dict"
    /\ DOMAIN parsed.dict = {"input_i"}
    /\ parsed.dict["input_i"] = Num(-235, -1)
    /\ stderr[1].kind = "noise"
    /\ stderr[Len(stderr)].kind = "noise"

\* the years written by the date values that are integers
YearTable ==
    {[chars |-> <<"2", "0", "2", "0">>, year |-> <<"2", "0", "2", "0">>],
     [chars |-> <<" ", "2", "0", "2", "0">>, year |-> <<"2", "0", "2", "0">>],
     [chars |-> <<"1", "9", "8", "7">>, year |-> <<"1", "9", "8", "7">>],
     [chars |-> <<"0">>, year |-> <<"0">>]}

Parsable(value) == \E r \in YearTable : r.chars = value

Unparsable(value) == ~Parsable(value)

YearOf(value) == (CHOOSE r \in YearTable : r.chars = value).year

\* _handle_date_tag has run on the tag
DateTagHandled == tdrc # << >> \/ warnings # << >>

\* C14: after _handle_date_tag the destination date tag holds the years of
\* the parsable values of the list, in their order, and one Warning was
\* emitted for each unparsable value and for no other
C14_DateListYears ==
    DateTagHandled =>
        LET good == SelectSeq(tag_value, Parsable)
        IN  /\ tdrc = [i \in 1..Len(good) |-> YearOf(good[i])]
            /\ warnings = SelectSeq(tag_value, Unparsable)

\* ["2020", "not-a-year"] gave ["2020"] and one Warning
C14_Witness ==
    /\ tag_value = <<<<"2", "0", "2", "0">>,
                     <<"n", "o", "t", "-", "a", "-", "y", "e", "a", "r">>>>
    /\ tdrc = <<<<"2", "0", "2", "0">>>>
    /\ Len(warnings) = 1

\* no thread exists, no task has run and no tool was invoked
NothingStarted ==
    /\ pc_run = "none"
    /\ \A t \in Files :
          future[t] = "none" /\ pc[t] = "idle" /\ history[t] = << >>

\* C15: while the destination directory is not set, or is absent and cannot
\* be created, start_conversion leaves the window without a thread: nothing
\* is created, started, run or invoked
C15_InvalidDestinationAborts ==
    dest_dir \in {"unset", "blocked"} => NothingStarted

\* start_conversion has returned after os.makedirs failed, with files
\* selected
C15_Witness ==
    /\ dest_dir = "blocked"
    /\ num_files > 0
    /\ output_log = <<"Error creating destination directory">>
    /\ NothingStarted

\* the events of the metadata transplant in a file's history
TransplantEvents(t) == Places(t, "Info") \cup Places(t, "Warning")

\* C16: in a file's task every start of the encode pass comes after an exit
\* of the analysis pass with code 0 and after its stats were parsed, and the
\* metadata transplant runs only after the encode pass exited with code 0
C16_PassOrder ==
    \A t \in Files :
        /\ \A j \in Places(t, "EncodeStart") :
              \E i \in Places(t, "AnalysisExit0"), k \in Places(t, "StatsParsed") :
                  i < k /\ k < j
        /\ pc[t] = "second_wait" => loudnorm_stats[t] = "complete"
        /\ pc[t] = "metadata" => Has(t, "EncodeExit0")
        /\ \A j \in TransplantEvents(t) :
              \E i \in Places(t, "EncodeExit0") : i < j

\* a file's metadata transplant has reported while the other file's encode
\* pass is running
C16_Witness ==
    /\ \E t \in Files : TransplantEvents(t) # {} /\ pc[t] = "returned"
    /\ \E t \in Files : pc[t] = "second_wait"

\* the file's analysis pass exited non-zero, or its output gave no stats,
\* or stats that lack a field the encode pass needs
AnalysisUnusable(t) ==
    \/ Has(t, "AnalysisExit1")
    \/ Has(t, "StatsFailed")
    \/ (Has(t, "StatsParsed") /\ loudnorm_stats[t] = "incomplete")

\* C17: a file whose analysis pass exited non-zero or gave no usable stats
\* is abandoned: its encode pass and its metadata transplant never start,
\* it gets no Finished event, its analysis pass ran once, and its task
\* returns with an Error event
C17_AnalysisFailureAbandons ==
    \A t \in Files :
        AnalysisUnusable(t) =>
            /\ ~Has(t, "EncodeStart")
            /\ TransplantEvents(t) = {}
            /\ ~Has(t, "Finished")
            /\ Cardinality(Places(t, "AnalysisStart")) = 1
            /\ pc[t] \in {"second_pass", "returned"}
            /\ pc[t] = "returned" => Has(t, "Error")

\* a settled batch in which one file's analysis pass exited non-zero and
\* the other file's stats lacked a field
C17_Witness ==
    /\ pc_run = "done"
    /\ \E t \in Files : Has(t, "AnalysisExit1")
    /\ \E t \in Files : Has(t, "StatsParsed") /\ loudnorm_stats[t] = "incomplete"

\* the lock is held by a thread that is no worker task: the coordinator or
\* the caller of stop()
HeldOutsideWorkers == lock \notin (Files \cup {0})

\* C18: completed_files and self.running are read and written only by a
\* thread that holds the lock: the increment, the progress computation and
\* the emission of a task are one critical section, a task reads the flag at
\* its start check and clears it after a ToolNotFound with the lock held,
\* and so do stop() when it clears the flag and the coordinator when it
\* reads it
C18_SharedStateUnderLock ==
    /\ [](\A t \in Files : pc[t] \in {"store", "compute", "emit"} => lock = t)
    /\ [][completed_files' # completed_files =>
            \E t \in Files : lock = t /\ pc[t] = "store"]_vars
    /\ [][\A t \in Files :
            (pc[t] = "check" /\ pc'[t] # "check") => lock = t]_vars
    /\ [][\A t \in Files :
            (pc[t] = "halt" /\ pc'[t] # "halt") => lock = t]_vars
    /\ [][stop_called' # stop_called => HeldOutsideWorkers]_vars
    /\ [][yielded' # yielded => HeldOutsideWorkers]_vars

\* the tool invocations recorded in a history
InvocationStarts(h) ==
    {i \in 1..Len(h) : h[i] \in {"AnalysisStart", "EncodeStart"}}

\* C19 as stated: once the cancellation flag has been set no task starts an
\* analysis pass or an encode pass
C19_NoInvocationAfterCancel ==
    [][~running =>
         \A t \in Files :
             InvocationStarts(history'[t]) = InvocationStarts(history[t])]_vars

\* C19 as amended: a task reads the flag once, at its start check; when it
\* finds the flag set it returns without an event or invocation, when it
\* finds it clear it starts work; and invocations are started only by tasks
\* that have passed their start check, whatever the flag is by then
C19_FlagReadAtStartCheck ==
    /\ [][\A t \in Files :
            (pc[t] = "check" /\ pc'[t] # "check") =>
                IF running
                THEN pc'[t] = "first_pass" /\ history'[t] # << >>
                ELSE pc'[t] = "returned" /\ history'[t] = << >>]_vars
    /\ [][\A t \in Files :
            InvocationStarts(history'[t]) # InvocationStarts(history[t]) =>
                pc[t] \in {"first_pass", "second_pass"}]_vars

\* the flag is set, one task found it set at its start check and returned,
\* and another task that had passed its check is about to start its
\* analysis pass
C19_Witness ==
    /\ ~running
    /\ \E u \in Files : pc[u] = "returned" /\ history[u] = << >>
    /\ \E t \in Files : pc[t] = "first_pass" /\ StartedWork(t)

\* the file's task has passed its start check and has not returned
InFlight(t) == pc[t] \notin {"idle", "check", "returned"}

\* C20: stop() changes nothing but the flag, and no step cancels a work item
\* that is running; a task whose encode pass exited 0 returns only after
\* Finished, the increment, the progress event and the metadata transplant;
\* and once stop() has been called every task that is past its start check
\* runs on until it returns
C20_StopDoesNotInterrupt ==
    /\ [][stop_called' # stop_called =>
            /\ pc' = pc
            /\ future' = future
            /\ history' = history
            /\ lock' = lock
            /\ completed_files' = completed_files]_vars
    /\ [][\A t \in Files :
            future[t] = "running" => future'[t] \in {"running", "finished"}]_vars
    /\ [](\A t \in Files :
            (pc[t] = "returned" /\ Has(t, "EncodeExit0")) =>
                /\ Has(t, "Finished")
                /\ Has(t, "Incremented")
                /\ Has(t, "Progress")
                /\ TransplantEvents(t) # {})
    /\ stop_called ~> (\A t \in Files : pc[t] \in {"idle", "returned"})

\* after stop(), with no tool missing: one task found the flag set at its
\* start check and returned, while the other, which had passed its check,
\* has logged Finished and is about to increment completed_files
C20_Witness ==
    /\ stop_called
    /\ Total("ToolNotFound") = 0
    /\ completed_files = 0
    /\ \E u \in Files : pc[u] = "returned" /\ history[u] = << >>
    /\ \E t \in Files : pc[t] = "lock" /\ Has(t, "Finished")

RECURSIVE LeadingInteger(_)
\* the digits a date value begins with
LeadingInteger(chars) ==
    IF chars # << >> /\ IsDigit(chars[1])
    THEN <<chars[1]>> \o LeadingInteger(Tail(chars))
    ELSE << >>

HasLeadingInteger(value) == LeadingInteger(value) # << >>

NoLeadingInteger(value) == ~HasLeadingInteger(value)

\* C23: after _handle_date_tag the destination date tag holds, for each value
\* of the list that begins with an integer, that leading integer as its year
\* ("2020-05-01" gives "2020"), and a Warning was emitted for exactly the
\* values that begin with no integer
C23_LeadingIntegerYear ==
    DateTagHandled =>
        LET good == SelectSeq(tag_value, HasLeadingInteger)
        IN  /\ tdrc = [i \in 1..Len(good) |-> LeadingInteger(good[i])]
            /\ warnings = SelectSeq(tag_value, NoLeadingInteger)

\* _find_front_cover has returned from a source it could read and that has tags
CoverSearched(t) ==
    /\ pc[t] # "metadata"
    /\ src_file.readable
    /\ HasTags(src_file)

\* the events the transplant of the file has logged
TransplantLog(t) == SubSeq(history[t], 11, Len(history[t]))

\* the picture came from the entry by the structural parse, as a front cover
FromFrontCover(entry) ==
    LET pic_data == DecodePictureData(entry)
    IN  /\ Parses(pic_data)
        /\ PictureType(pic_data) = 3
        /\ picture = PictureOf(pic_data)

\* the picture came from the entry by the raw-bytes fallback, the entry
\* having failed the structural parse
FromFallback(entry) ==
    LET pic_data == DecodePictureData(entry)
    IN  /\ pic_data # << >>
        /\ ~Parses(pic_data)
        /\ picture.kind = "APIC"
        /\ picture.data = pic_data
        /\ picture.mime = IF pic_data[1] = "png" THEN "image/png"
                          ELSE "image/jpeg"

\* C22: the picture cover extraction returns comes from an entry that parses
\* structurally as a front cover, or from one that fails the structural parse
\* and is taken as raw bytes with the sniffed MIME type, never from an entry
\* that parses with another picture type; when it returns none a Warning was
\* logged and the cover copy is skipped
C22_CoverFromFrontOrFallback ==
    \A t \in Files :
        CoverSearched(t) =>
            IF picture # NoPicture
            THEN \E i \in 1..Len(src_file.pictures) :
                    \/ FromFrontCover(src_file.pictures[i])
                    \/ FromFallback(src_file.pictures[i])
            ELSE /\ TransplantLog(t)[1] = "Warning"
                 /\ pc[t] # "copy_cover"

\* the entry is a picture block of the front cover type
FrontCoverEntry(entry) ==
    /\ Parses(DecodePictureData(entry))
    /\ PictureType(DecodePictureData(entry)) = 3

\* the APIC frame that carries the picture of a front cover entry
CoverFrameOf(entry) ==
    [mime |-> PictureOf(DecodePictureData(entry)).mime,
     data |-> PictureOf(DecodePictureData(entry)).data]

\* the transplant of the file has ended, from a readable source that holds a
\* front cover into a destination that can be read and written
CoverTransplanted(t) ==
    /\ pc[t] = "returned"
    /\ Has(t, "EncodeExit0")
    /\ src_file.readable
    /\ \E i \in 1..Len(src_file.pictures) : FrontCoverEntry(src_file.pictures[i])
    /\ dest_file.readable
    /\ dest_file.writable

\* C21: after the transplant of a source that holds a front cover picture,
\* the tags saved in the destination file hold exactly one cover entry, and
\* it carries the picture data of a front cover entry of the source
C21_CoverPersisted ==
    \A t \in Files :
        CoverTransplanted(t) =>
            \E i \in 1..Len(src_file.pictures) :
                /\ FrontCoverEntry(src_file.pictures[i])
                /\ dest_file.apic = <<CoverFrameOf(src_file.pictures[i])>>

\* C24: whatever fails in the metadata transplant of a file, the transplant
\* logs Warning and Info events only, the file's Finished event and its
\* progress stay, completed_files keeps the file's increment and
\* self.running stays True
C24_TransplantFailuresNonFatal ==
    \A t \in Files :
        /\ \A i \in 1..Len(TransplantLog(t)) :
              TransplantLog(t)[i] \in {"Warning", "Info"}
        /\ ~Has(t, "Error")
        /\ Has(t, "Finished")
        /\ completed_files = 1
        /\ progress_log = <<100>>
        /\ running

\* the transplant ended after the destination could not be opened, for the
\* cover copy and again for the tag copy
C24_Witness ==
    /\ pc[1] = "returned"
    /\ src_file.readable
    /\ picture # NoPicture
    /\ ~dest_file.readable
    /\ TransplantLog(1) = <<"Warning", "Warning">>
    /\ pc_run = "done"

\* what the sink receives from a task: log events and the progress event
SinkEvents == LogEvents \cup {"Progress"}

IsSinkEvent(item) == item \in SinkEvents

\* the events of the file, in the order its task emitted them
EventsOf(t) == SelectSeq(history[t], IsSinkEvent)

\* C25: the first event of a file is its Overwriting or Converting event and
\* it has one only; a file has Finished or Error events, never both; each
\* progress event of a file comes after its Finished event; a file has at
\* most one Finished event and at most one progress event
C25_FileEventOrder ==
    \A t \in Files :
        /\ EventsOf(t) # << >> => EventsOf(t)[1] \in {"Overwriting", "Converting"}
        /\ Cardinality(Places(t, "Overwriting") \cup Places(t, "Converting")) <= 1
        /\ ~(Has(t, "Finished") /\ ErrorOutcome(t))
        /\ \A j \in Places(t, "Progress") :
              \E i \in Places(t, "Finished") : i < j
        /\ Cardinality(Places(t, "Finished")) <= 1
        /\ Cardinality(Places(t, "Progress")) <= 1

\* one file was announced, finished and then counted, while another was
\* announced and ended with Error events
C25_Witness ==
    /\ \E t \in Files :
          /\ Has(t, "Overwriting")
          /\ Has(t, "Finished") /\ Has(t, "Progress")
          /\ pc[t] = "returned"
    /\ \E t \in Files :
          /\ pc[t] = "returned"
          /\ Has(t, "Converting")
          /\ Places(t, "Error") # {}

\* C26: no two jobs of a batch have the same destination path
C26_DisjointDestinations ==
    \A i, j \in 1..Len(files_to_convert) :
        i # j => DestPath(files_to_convert[i]) # DestPath(files_to_convert[j])

\* a step in which the window starts a thread after the first one
LaterThreadStarts == later_threads' > later_threads

\* a step in which a task of the first batch sends an event to the window
FirstBatchEvent == history' # history \/ progress_log' # progress_log

\* C27: the window starts a new batch only when no task of the previous
\* batch is executing, and once a later batch has started no event of the
\* first batch reaches the window
C27_OneActiveBatch ==
    [][/\ LaterThreadStarts => \A t \in Files : future[t] # "running"
       /\ later_threads > 0 => ~FirstBatchEvent]_vars

\* the state a skipped task must leave alone: every file's events and tool
\* invocations, the progress events, the counter, the flag and the lock
BatchEffects == <<history, progress_log, completed_files, running, lock>>

\* C28: the step in which a task finds the flag set at its start check ends
\* the task and changes no event, invocation, counter or flag; such a task
\* and a work item cancelled while pending have no event or invocation of
\* their own; a cancelled work item is never run; and the step that cancels
\* the pending work items changes none of these either
C28_SkippedTasksHaveNoEffect ==
    /\ [][\A t \in Files :
            (pc[t] = "check" /\ pc'[t] # "check" /\ ~running) =>
                /\ pc'[t] = "returned"
                /\ BatchEffects' = BatchEffects]_vars
    /\ [][\A t \in Files :
            (future[t] # "cancelled" /\ future'[t] = "cancelled") =>
                /\ future[t] = "pending"
                /\ BatchEffects' = BatchEffects]_vars
    /\ [][\A t \in Files :
            future[t] = "cancelled" =>
                future'[t] = "cancelled" /\ pc'[t] = "idle"]_vars
    /\ [](\A t \in Files :
            future[t] = "cancelled" => history[t] = << >> /\ pc[t] = "idle")

\* after stop(), the first file's task found the flag set at its start check
\* and returned, and the coordinator cancelled the second file's pending
\* work item; nothing was logged or counted
C28_Witness ==
    /\ stop_called
    /\ num_files = 2
    /\ pc[1] = "returned" /\ history[1] = << >>
    /\ future[2] = "cancelled" /\ history[2] = << >>
    /\ completed_files = 0
    /\ progress_log = << >>
    /\ pc_run = "done"

====
